---- MODULE Spec2Model ----
(***************************************************************************)
(* Model of hawkbit_rollout.py: a single-threaded client that registers a  *)
(* target filter, then for every distribution set of the chosen sequence   *)
(* resolves it, creates a rollout, waits for it to become ready, starts it *)
(* and monitors it, and finally queries the status of every target.        *)
(* The Hawkbit server is the environment: its answers are chosen           *)
(* nondeterministically among the responses the client distinguishes, and  *)
(* its filters and rollouts persist from one execution of main() to the    *)
(* next.  Strings the code builds or slices are sequences of characters.   *)
(***************************************************************************)
EXTENDS Integers, Sequences, FiniteSets, TLC

\* ------------------------------------------------------------------ bounds
MaxRuns == 2          \* executions of main() against the same server
MaxMonPolls == 6      \* polls of one monitor loop the model follows
MaxCells == 2         \* CSV cells of the query-builder specification
MaxCellLen == 2       \* characters per cell of the query-builder specification
MaxCandidates == 2    \* candidates per response of the resolver specification
MaxLatency == 1       \* clock ticks one status request may take
MaxRolloutId == 5     \* rollout identifiers of the creator specification

\* --------------------------------------------------------- program constants
FILTER_NAME == "Target_filter"
ROLLOUT_PREFIX == "Rollout_Seq"
MaxAttempts == 20     \* range(20) in start_rollout
SuffixLen == 5        \* serials[0][-5:]
NoId == 0             \* None, and every falsy identifier
PollInterval == 1     \* config["polling"]["interval"]
PollTimeout == 3      \* config["polling"]["timeout"]

\* ------------------------------------------------------------------ strings
Quote == "\""
Space == " "

Str_name_eq == <<"n", "a", "m", "e", "=", "=">>
Str_or == <<" ", "o", "r", " ">>

SN00001 == <<"S", "N", "0", "0", "0", "0", "1">>
SN00002 == <<"S", "N", "0", "0", "0", "0", "2">>

Min(S) == CHOOSE x \in S : \A y \in S : x <= y

\* val.strip(): leading and trailing blanks removed
RECURSIVE LStrip(_)
LStrip(s) == IF s # <<>> /\ Head(s) = Space THEN LStrip(Tail(s)) ELSE s

RECURSIVE RStrip(_)
RStrip(s) ==
    IF s # <<>> /\ s[Len(s)] = Space THEN RStrip(SubSeq(s, 1, Len(s) - 1)) ELSE s

Strip(s) == RStrip(LStrip(s))

\* the loop of generate_or_query over the cells of the CSV file, rows flattened
RECURSIVE ReadSerials(_)
ReadSerials(cells) ==
    IF cells = <<>> THEN <<>>
    ELSE LET val == Strip(Head(cells))
         IN (IF val # <<>> THEN <<val>> ELSE <<>>) \o ReadSerials(Tail(cells))

\* f'name=="{s}"'
Predicate(s) == Str_name_eq \o <<Quote>> \o s \o <<Quote>>

\* " or ".join(parts)
RECURSIVE JoinOr(_)
JoinOr(parts) ==
    IF parts = <<>> THEN <<>>
    ELSE IF Len(parts) = 1 THEN Head(parts)
    ELSE Head(parts) \o Str_or \o JoinOr(Tail(parts))

\* "(" + " or ".join([...]) + ")"
OrExpression(serials) ==
    <<"(">> \o JoinOr([i \in 1..Len(serials) |-> Predicate(serials[i])]) \o <<")">>

\* a query builder without the test for an empty list of serials
generate_or_query_NoCheck(cells) ==
    [ok |-> TRUE, query |-> OrExpression(ReadSerials(cells)),
     serials |-> ReadSerials(cells)]

\* generate_or_query: [ok, query, serials]; ok = FALSE is the RuntimeError
generate_or_query(cells) ==
    LET serials == ReadSerials(cells)
    IN IF serials = <<>>
       THEN [ok |-> FALSE, query |-> <<>>, serials |-> <<>>]
       ELSE [ok |-> TRUE, query |-> OrExpression(serials), serials |-> serials]

\* serials[0][-5:]
SerialSuffix(serials) ==
    LET s == serials[1]
    IN IF Len(s) <= SuffixLen THEN s ELSE SubSeq(s, Len(s) - SuffixLen + 1, Len(s))

\* f"{ROLLOUT_PREFIX}_{seq_choice}_{serial_suffix}_{idx}"
RolloutName(seq, suffix, i) == <<ROLLOUT_PREFIX, seq, suffix, i>>


\* ------------------------------------------------------------ configuration
\* config["sequences"]: sequence key -> ordered list of distribution sets
FW10 == [name |-> "fw", version |-> "1.0"]
FW11 == [name |-> "fw", version |-> "1.1"]
Sequences == ("1.1" :> <<FW10, FW11>>)

\* what the operator may type at the prompt
SeqChoices == DOMAIN Sequences \cup {"9.9"}

\* contents of target_rollout.csv the model runs with (cells, rows flattened)
CsvFiles ==
    { <<SN00001, <<Space>> \o SN00002 \o <<Space>> >>,
      <<<<>>, <<Space>> \o SN00002>>,
      <<<<Space>>, <<>>>>,
      <<>> }

\* --------------------------------------------------------------- the server
\* distribution sets a query answer may list
DsCatalog ==
    { [id |-> 1, name |-> "fw", version |-> "1.0"],
      [id |-> 2, name |-> "fw", version |-> "1.1"],
      [id |-> 3, name |-> "fw2", version |-> "1.0"] }

DsLists(n) == UNION { [1..k -> DsCatalog] : k \in 0..n }

\* answers to GET /rest/v1/distributionsets
DsResponses(n) ==
    { [code |-> 200, sets |-> l] : l \in DsLists(n) }
        \cup { [code |-> 500, sets |-> <<>>] }

\* rollout statuses a status request may report
Statuses == {"ready", "running", "finished", "error", "paused"}

\* answers to GET /rest/v1/rollouts/{id}
StatusResponses ==
    { [code |-> 200, status |-> s] : s \in Statuses }
        \cup { [code |-> 503, status |-> "none"] }

\* answers to the three per-target queries
TargetCodes == {200, 204, 404}

\* the expressions the server stores under a filter name
StoredQueries(filters, name) ==
    { filters[i].query : i \in { j \in 1..Len(filters) : filters[j].name = name } }

HasFilter(filters, name) == \E i \in 1..Len(filters) : filters[i].name = name

\* POST /rest/v1/targetfilters: 409 for a name already taken
SrvFilterPostCodes(filters, name) ==
    IF HasFilter(filters, name) THEN {409} ELSE {201, 500}

SrvFilterPost(filters, payload, code) ==
    IF code \in {200, 201}
    THEN Append(filters, [id |-> Len(filters) + 1, name |-> payload.name,
                          query |-> payload.query])
    ELSE filters

\* GET /rest/v1/targetfilters: the list, or an error body without content
SrvFilterList(filters, ok) == IF ok THEN filters ELSE <<>>

\* PUT /rest/v1/targetfilters/{id}: replaces the entry when it answers 200/204
SrvFilterPut(filters, fid, payload, code) ==
    IF code \in {200, 204} /\ fid \in 1..Len(filters)
    THEN [filters EXCEPT ![fid] = [id |-> fid, name |-> payload.name,
                                   query |-> payload.query]]
    ELSE filters

SrvFilterPutCodes == {200, 204, 500}

HasRollout(rollouts, name) == \E i \in 1..Len(rollouts) : rollouts[i] = name

\* POST /rest/v1/rollouts: 409 for a duplicate name, else created or refused
SrvRolloutPostCodes(rollouts, name) ==
    IF HasRollout(rollouts, name) THEN {409} ELSE {201, 400}

SrvRolloutPost(rollouts, name, code) ==
    IF code \in {200, 201} THEN Append(rollouts, name) ELSE rollouts

\* POST /rest/v1/rollouts/{id}/start
SrvStartCodes == {200, 202, 500}

\* --------------------------------------------------------------- the client
\* a resolver that trusts the server's filtering by version
DsMatches_NameOnly(ds, name, version) == ds.name = name

\* get_distribution_set: the exact-match re-check of one candidate
DsMatches(ds, name, version) == ds.name = name /\ ds.version = version

\* get_distribution_set: identifier of the first exact match, or None
get_distribution_set(code, sets, name, version) ==
    IF code # 200 THEN NoId
    ELSE LET hits == { i \in 1..Len(sets) : DsMatches(sets[i], name, version) }
         IN IF hits = {} THEN NoId ELSE sets[Min(hits)].id

\* create_target_filter: r.status_code in (200, 201)
FilterCreated(code) == code \in {200, 201}

\* a registrar that takes every answer to the update for a success
FilterUpdated_AnyAnswer(code) == TRUE

\* create_target_filter: u.status_code in (200, 204)
FilterUpdated(code) == code \in {200, 204}

\* a registrar that updates the first filter of the list, whatever its name
FindFilterId_FirstEntry(filters, name) ==
    IF filters = <<>> THEN NoId ELSE filters[1].id

\* create_target_filter: next((f.get("id") for f in filters if f.get("name") == name), None)
FindFilterId(filters, name) ==
    LET hits == { i \in 1..Len(filters) : filters[i].name = name }
    IN IF hits = {} THEN NoId ELSE filters[Min(hits)].id

\* create_target_filter against a server holding `filters` that answers the
\* POST with `post`, the list request with the list or not (`listOk`) and the
\* PUT with `put`: the value returned, the server's filters afterwards and the
\* requests sent
create_target_filter(filters, name, query, post, listOk, put) ==
    LET payload == [name |-> name, query |-> query]
        created == SrvFilterPost(filters, payload, post)
        fid == FindFilterId(SrvFilterList(filters, listOk), name)
    IN IF FilterCreated(post)
       THEN [ok |-> TRUE, filters |-> created, post |-> post,
             listed |-> FALSE, putTo |-> NoId, put |-> 0]
       ELSE IF post = 409
       THEN IF fid # NoId
            THEN [ok |-> FilterUpdated(put),
                  filters |-> SrvFilterPut(created, fid, payload, put),
                  post |-> post, listed |-> TRUE, putTo |-> fid, put |-> put]
            ELSE [ok |-> FALSE, filters |-> created, post |-> post,
                  listed |-> TRUE, putTo |-> NoId, put |-> 0]
       ELSE [ok |-> FALSE, filters |-> created, post |-> post,
             listed |-> FALSE, putTo |-> NoId, put |-> 0]

\* a creator that takes the conflicting rollout for its own
create_rollout_AdoptsExisting(code, rid) ==
    IF code \in {200, 201, 409} THEN rid ELSE NoId

\* a creator for which every 2xx status is a creation
create_rollout_Any2xx(code, rid) ==
    IF code \in 200..299 THEN rid ELSE NoId

\* create_rollout: the identifier returned for a response (None for 409 and
\* for every other failure)
create_rollout(code, rid) ==
    IF code \in {200, 201} THEN rid
    ELSE IF code = 409 THEN NoId
    ELSE NoId

\* create_rollout: what the response is reported as
CreateOutcome(code) ==
    IF code \in {200, 201} THEN "created"
    ELSE IF code = 409 THEN "skip"
    ELSE "failed"

\* an activator that takes every answered poll for ready
ReadyObserved_Any200(resp) == resp.code = 200

\* start_rollout: r.status_code == 200 and state == "ready"
ReadyObserved(resp) == resp.code = 200 /\ resp.status = "ready"

\* start_rollout: r.status_code in (200, 202)
StartOk(code) == code \in {200, 202}

\* a monitor that takes only finished for terminal
IsTerminal_FinishedOnly(status) == status = "finished"

\* monitor_rollout_until_done: status in ["finished", "error", "paused"]
IsTerminal(status) == status \in {"finished", "error", "paused"}

\* monitor_rollout_until_done: time.time() - start_time > timeout
TimedOut(now, timeout) == now > timeout

\* a monitor that tests the timeout before the terminal statuses
MonitorStep_TimeoutFirst(resp, now, timeout) ==
    IF resp.code # 200 THEN "retry"
    ELSE IF TimedOut(now, timeout) THEN "timedout"
    ELSE IF IsTerminal(resp.status) THEN "ended"
    ELSE "sleep"

\* a monitor that tests the timeout after a failed poll too
MonitorStep_TimeoutOnError(resp, now, timeout) ==
    IF resp.code # 200 THEN (IF TimedOut(now, timeout) THEN "timedout" ELSE "retry")
    ELSE IF IsTerminal(resp.status) THEN "ended"
    ELSE IF TimedOut(now, timeout) THEN "timedout"
    ELSE "sleep"

\* monitor_rollout_until_done: what one iteration of the loop does with the
\* response, `now` being the time elapsed when it is read
MonitorStep(resp, now, timeout) ==
    IF resp.code # 200 THEN "retry"
    ELSE IF IsTerminal(resp.status) THEN "ended"
    ELSE IF TimedOut(now, timeout) THEN "timedout"
    ELSE "sleep"

\* an inspector for which only 200 is no error
AssignedReport_204IsError(code) == IF code = 200 THEN "present" ELSE "error"

\* get_assigned_ds / get_installed_ds: what a response is reported as
AssignedReport(code) ==
    IF code = 200 THEN "present" ELSE IF code = 204 THEN "none" ELSE "error"

InstalledReport(code) ==
    IF code = 200 THEN "present" ELSE IF code = 204 THEN "none" ELSE "error"

\* get_firmware_history: what a response is reported as
HistoryReport(code, nActions) ==
    IF code # 200 THEN "error"
    ELSE IF nActions = 0 THEN "no_history"
    ELSE "history"

\* get_distribution_set and main: the messages printed for a query answer
ResolverSays(code, id) ==
    IF code # 200 THEN {"Failed to query distribution set", "Skipping rollout"}
    ELSE IF id # NoId THEN {"Found distribution set"}
    ELSE {"Distribution set not found (exact match)", "Skipping rollout"}

\* create_target_filter and main: the messages printed for the call that
\* returned r
RegistrarSays(r) ==
    LET abort == IF r.ok THEN {} ELSE {"Target filter step failed, aborting"}
    IN IF FilterCreated(r.post) THEN {"Filter created"} \cup abort
       ELSE IF r.post = 409
       THEN {"Filter exists, updating"} \cup abort
               \cup (IF r.putTo = NoId THEN {"Filter ID not found during update"}
                     ELSE IF FilterUpdated(r.put) THEN {"Updated existing filter"}
                     ELSE {"Update failed"})
       ELSE {"Filter creation failed"} \cup abort

\* create_rollout and main: the messages printed for a creation answer
CreatorSays(code) ==
    IF code \in {200, 201} THEN {"Rollout created"}
    ELSE IF code = 409 THEN {"Rollout already exists, skipping creation", "Rollout not created"}
    ELSE {"Rollout creation failed", "Rollout not created"}

\* start_rollout: the message printed for one status answer of the loop
ActivatorSays(resp) == IF resp.code = 200 THEN {"Rollout status"} ELSE {}

\* start_rollout: the message printed for the answer to the start command
StartSays(code) ==
    IF StartOk(code) THEN {"Rollout started successfully"} ELSE {"Failed to start rollout"}

\* monitor_rollout_until_done: the messages printed by one iteration
MonitorSays(resp, step) ==
    IF resp.code # 200 THEN {"Failed to fetch progress"}
    ELSE {"Status"} \cup (IF step = "ended" THEN {"Rollout ended with status"}
                          ELSE IF step = "timedout" THEN {"Timeout reached"}
                          ELSE {})

\* get_assigned_ds: the message printed for a response
AssignedSays(code) ==
    IF code = 200 THEN {"Assigned"}
    ELSE IF code = 204 THEN {"No assigned distribution set"}
    ELSE {"Error fetching assigned DS"}

\* get_installed_ds: the message printed for a response
InstalledSays(code) ==
    IF code = 200 THEN {"Installed"}
    ELSE IF code = 204 THEN {"No installed DS found"}
    ELSE {"Error fetching installed DS"}

\* get_firmware_history: the messages printed for a response
HistorySays(code, nActions) ==
    IF code # 200 THEN {"Error fetching firmware history"}
    ELSE IF nActions = 0 THEN {"No firmware history found"}
    ELSE {"Firmware History for Target"}

\* ---------------------------------------------------------------- the state
VARIABLES
    pc,           \* position of main(): "begin", "filter", "resolve", "create",
                  \* "activate", "start", "monitor", "inspect", or how it ended:
                  \* "done", "aborted", "invalid", "crashed", "killed"
    run,          \* number of the current execution of main()
    seq_choice,   \* the sequence key typed at the prompt
    csv,          \* the cells read from the CSV file
    serials,      \* serials returned by generate_or_query
    query,        \* the OR-expression returned by generate_or_query
    flt,          \* what create_target_filter returned and the requests it sent
    idx,          \* enumerate(..., start=1) index of the current bundle
    ds_id,        \* ds_id of the current bundle
    createCode,   \* response status of the current bundle's creation request
    rollout_id,   \* rollout_id of the current bundle
    attempt,      \* loop variable of start_rollout
    actResult,    \* how start_rollout ended for the current bundle
    actPolls,     \* status requests sent by the running call of start_rollout
    actStatus,    \* status read by the last of them ("none": no 200 answer yet)
    startSent,    \* start commands sent for the current bundle's rollout
    monState,     \* "idle", "polling", "ended", "timedout", "interrupted"
    monPolls,     \* status requests sent by the current monitor loop
    monSleeps,    \* time.sleep(interval) calls of the current monitor loop
    elapsed,      \* time.time() - start_time of the current monitor loop
    lastStatus,   \* status printed by the last poll of the monitor loop
    seenTerminal, \* a poll of the current monitor loop returned a terminal status
    seqMatch,     \* how far the statuses polled follow running, running, finished
    polled200,    \* a poll of the current monitor loop was answered with 200
    outcomes,     \* outcome of every bundle processed so far, in order
    inflight,     \* rollouts handed to start_rollout whose monitoring has not ended
    dev,          \* index in serials of the target being inspected
    devStep,      \* 1 assigned, 2 installed, 3 history: the next query
    devReports,   \* response and report of each query of the current target so far
    nDevReq,      \* target queries sent in this execution
    reqs,         \* kinds of request sent in this execution
    failed,       \* the failing responses the last step received, by kind
    said,         \* the messages the last step printed about its responses
    srvFilters,   \* the server's target filters
    srvRollouts,  \* the server's rollouts, by name; the identifier is the position
    fnIn,         \* input of the function a function specification applies
    fnOut         \* its result

mainVars == <<pc, run, seq_choice, csv, serials, query, flt, idx>>
bundleVars == <<ds_id, createCode, rollout_id, attempt, actResult, actPolls, actStatus,
               startSent>>
monVars == <<monState, monPolls, monSleeps, elapsed, lastStatus, seenTerminal, seqMatch,
            polled200>>
histVars == <<outcomes, inflight, reqs>>
devVars == <<dev, devStep, devReports, nDevReq>>
srvVars == <<srvFilters, srvRollouts>>
logVars == <<failed, said>>
fnVars == <<fnIn, fnOut>>
vars == <<mainVars, bundleVars, monVars, histVars, logVars, devVars, srvVars, fnVars>>

NoFilterCall ==
    [ok |-> FALSE, post |-> 0, listed |-> FALSE, putTo |-> NoId, put |-> 0,
     before |-> {}]

Bundles == IF seq_choice \in DOMAIN Sequences THEN Sequences[seq_choice] ELSE <<>>

\* the state of a process that has not read its inputs yet
IdleState ==
    [seq_choice |-> "", serials |-> <<>>, query |-> <<>>, flt |-> NoFilterCall,
     idx |-> 0, ds_id |-> NoId, createCode |-> 0, rollout_id |-> NoId,
     attempt |-> 0, actResult |-> "none", monState |-> "idle", monPolls |-> 0,
     monSleeps |-> 0, elapsed |-> 0, lastStatus |-> "none", seenTerminal |-> FALSE,
     seqMatch |-> 0, outcomes |-> <<>>, inflight |-> {}, reqs |-> {},
     dev |-> 0, devStep |-> 0, devReports |-> <<>>, nDevReq |-> 0,
     csv |-> <<>>, actPolls |-> 0, actStatus |-> "none", startSent |-> 0,
     polled200 |-> FALSE, failed |-> {}, said |-> {}]

ClientIdle ==
    /\ seq_choice = IdleState.seq_choice /\ serials = IdleState.serials
    /\ query = IdleState.query /\ flt = IdleState.flt /\ idx = IdleState.idx
    /\ ds_id = IdleState.ds_id /\ createCode = IdleState.createCode
    /\ rollout_id = IdleState.rollout_id /\ attempt = IdleState.attempt
    /\ actResult = IdleState.actResult /\ monState = IdleState.monState
    /\ monPolls = IdleState.monPolls /\ monSleeps = IdleState.monSleeps
    /\ elapsed = IdleState.elapsed /\ lastStatus = IdleState.lastStatus
    /\ seenTerminal = IdleState.seenTerminal /\ seqMatch = IdleState.seqMatch
    /\ outcomes = IdleState.outcomes /\ inflight = IdleState.inflight
    /\ reqs = IdleState.reqs /\ dev = IdleState.dev /\ devStep = IdleState.devStep
    /\ devReports = IdleState.devReports /\ nDevReq = IdleState.nDevReq
    /\ csv = IdleState.csv /\ actPolls = IdleState.actPolls
    /\ actStatus = IdleState.actStatus /\ startSent = IdleState.startSent
    /\ polled200 = IdleState.polled200 /\ failed = IdleState.failed
    /\ said = IdleState.said

ClientReset ==
    /\ seq_choice' = IdleState.seq_choice /\ serials' = IdleState.serials
    /\ query' = IdleState.query /\ flt' = IdleState.flt /\ idx' = IdleState.idx
    /\ ds_id' = IdleState.ds_id /\ createCode' = IdleState.createCode
    /\ rollout_id' = IdleState.rollout_id /\ attempt' = IdleState.attempt
    /\ actResult' = IdleState.actResult /\ monState' = IdleState.monState
    /\ monPolls' = IdleState.monPolls /\ monSleeps' = IdleState.monSleeps
    /\ elapsed' = IdleState.elapsed /\ lastStatus' = IdleState.lastStatus
    /\ seenTerminal' = IdleState.seenTerminal /\ seqMatch' = IdleState.seqMatch
    /\ outcomes' = IdleState.outcomes /\ inflight' = IdleState.inflight
    /\ reqs' = IdleState.reqs /\ dev' = IdleState.dev /\ devStep' = IdleState.devStep
    /\ devReports' = IdleState.devReports /\ nDevReq' = IdleState.nDevReq
    /\ csv' = IdleState.csv /\ actPolls' = IdleState.actPolls
    /\ actStatus' = IdleState.actStatus /\ startSent' = IdleState.startSent
    /\ polled200' = IdleState.polled200 /\ failed' = IdleState.failed
    /\ said' = IdleState.said

Init ==
    /\ pc = "begin" /\ run = 1
    /\ ClientIdle
    /\ srvFilters = <<[id |-> 1, name |-> "Other_filter", query |-> <<>>]>>
    /\ srvRollouts = <<>>
    /\ fnIn = <<>> /\ fnOut = <<>>

\* ------------------------------------------------------------------- main()
\* main, up to the call of create_target_filter: the sequence is chosen, the
\* CSV file is read and the query is built; no request is sent
Begin ==
    /\ pc = "begin"
    /\ \E choice \in SeqChoices, cells \in CsvFiles :
         LET g == generate_or_query(cells)
         IN /\ seq_choice' = choice
            /\ IF choice \notin DOMAIN Sequences
               THEN /\ pc' = "invalid"
                    /\ UNCHANGED <<csv, serials, query>>
               ELSE IF ~g.ok
               THEN /\ pc' = "crashed"
                    /\ csv' = cells
                    /\ UNCHANGED <<serials, query>>
               ELSE /\ pc' = "filter"
                    /\ csv' = cells
                    /\ serials' = g.serials
                    /\ query' = g.query
    /\ UNCHANGED <<run, flt, idx, bundleVars, monVars, histVars, logVars, devVars,
                   srvVars, fnVars>>

\* a loop that is left after its first bundle (break for continue)
LoopNext_Breaks(i, n) == "inspect"

\* where the loop over the sequence goes after bundle i
LoopNext(i, n) == IF i < n THEN "resolve" ELSE "inspect"

\* a driver that does not test the result of create_target_filter
AfterFilter_IgnoresResult(ok, n) == LoopNext(0, n)

\* main: if not create_target_filter(...): abort, else enter the loop
AfterFilter(ok, n) == IF ~ok THEN "aborted" ELSE LoopNext(0, n)

FilterRequests(r) ==
    {"filter_post"} \cup (IF r.listed THEN {"filter_list"} ELSE {})
                    \cup (IF r.putTo # NoId THEN {"filter_put"} ELSE {})

\* main: the call of create_target_filter and the test of its result
RegisterFilter ==
    /\ pc = "filter"
    /\ \E post \in SrvFilterPostCodes(srvFilters, FILTER_NAME),
          listOk \in BOOLEAN, put \in SrvFilterPutCodes :
         LET r == create_target_filter(srvFilters, FILTER_NAME, query, post, listOk, put)
         IN /\ flt' = [ok |-> r.ok, post |-> r.post, listed |-> r.listed,
                       putTo |-> r.putTo, put |-> r.put,
                       before |-> StoredQueries(srvFilters, FILTER_NAME)]
            /\ srvFilters' = r.filters
            /\ reqs' = reqs \cup FilterRequests(r)
            /\ failed' = (IF post \notin {200, 201, 409} THEN {"filter_post"} ELSE {})
                  \cup (IF r.listed /\ ~listOk THEN {"filter_list"} ELSE {})
                  \cup (IF r.putTo # NoId /\ put \notin {200, 204}
                        THEN {"filter_put"} ELSE {})
            /\ said' = RegistrarSays(r)
            /\ pc' = AfterFilter(r.ok, Len(Bundles))
            /\ idx' = IF pc' = "resolve" THEN 1 ELSE idx
            /\ dev' = IF pc' = "inspect" THEN 1 ELSE dev
            /\ devStep' = IF pc' = "inspect" THEN 1 ELSE devStep
    /\ UNCHANGED <<run, seq_choice, csv, serials, query, bundleVars, monVars,
                   outcomes, inflight, devReports, nDevReq, srvRollouts, fnVars>>

\* the end of one iteration of the loop over the sequence: the bundle's
\* outcome is known, its locals are dropped and the loop goes on
EndBundle(outcome) ==
    /\ outcomes' = Append(outcomes, outcome)
    /\ pc' = LoopNext(idx, Len(Bundles))
    /\ idx' = IF idx < Len(Bundles) THEN idx + 1 ELSE idx
    /\ dev' = IF idx < Len(Bundles) THEN dev ELSE 1
    /\ devStep' = IF idx < Len(Bundles) THEN devStep ELSE 1
    /\ ds_id' = NoId /\ createCode' = 0 /\ rollout_id' = NoId
    /\ attempt' = 0 /\ actResult' = "none"
    /\ actPolls' = 0 /\ actStatus' = "none" /\ startSent' = 0
    /\ monState' = "idle" /\ monPolls' = 0 /\ monSleeps' = 0 /\ elapsed' = 0
    /\ lastStatus' = "none" /\ seenTerminal' = FALSE /\ seqMatch' = 0
    /\ polled200' = FALSE

\* main: ds_id = get_distribution_set(...); if not ds_id: continue
Resolve ==
    /\ pc = "resolve"
    /\ reqs' = reqs \cup {"ds_query"}
    /\ \E resp \in DsResponses(MaxCandidates) :
         LET id == get_distribution_set(resp.code, resp.sets,
                                        Bundles[idx].name, Bundles[idx].version)
         IN /\ failed' = IF resp.code # 200 THEN {"ds_query"} ELSE {}
            /\ said' = ResolverSays(resp.code, id)
            /\ IF id = NoId
               THEN EndBundle("not_found")
               ELSE /\ ds_id' = id
                    /\ pc' = "create"
                    /\ UNCHANGED <<idx, dev, devStep, createCode, rollout_id, attempt,
                                   actResult, actPolls, actStatus, startSent, monVars,
                                   outcomes>>
    /\ UNCHANGED <<run, seq_choice, csv, serials, query, flt, inflight, devReports,
                   nDevReq, srvVars, fnVars>>

\* main: if rollout_id: start_rollout(...) ... else: not created
AfterCreate(rid) == IF rid # NoId THEN "activate" ELSE "next"

\* main: rollout_id = create_rollout(...) and the test of its result
CreateRollout ==
    /\ pc = "create"
    /\ reqs' = reqs \cup {"rollout_create"}
    /\ LET name == RolloutName(seq_choice, SerialSuffix(serials), idx)
       IN \E code \in SrvRolloutPostCodes(srvRollouts, name) :
            LET after == SrvRolloutPost(srvRollouts, name, code)
                rid == create_rollout(code, Len(after))
            IN /\ srvRollouts' = after
               /\ failed' = IF code \notin {200, 201, 409} THEN {"rollout_create"} ELSE {}
               /\ said' = CreatorSays(code)
               /\ IF AfterCreate(rid) = "activate"
                  THEN /\ pc' = "activate"
                       /\ createCode' = code
                       /\ rollout_id' = rid
                       /\ inflight' = inflight \cup {rid}
                       /\ UNCHANGED <<idx, dev, devStep, ds_id, attempt, actResult,
                                      actPolls, actStatus, startSent, monVars, outcomes>>
                  ELSE /\ EndBundle(CreateOutcome(code))
                       /\ UNCHANGED inflight
    /\ UNCHANGED <<run, seq_choice, csv, serials, query, flt, devReports, nDevReq,
                   srvFilters, fnVars>>

\* a driver that goes on to the next bundle without monitoring
AfterActivation_SkipsMonitor(result) == "next"

\* main: monitor_rollout_until_done is called whenever start_rollout returns
AfterActivation(result) == "monitor"

\* the first lines of monitor_rollout_until_done: start_time = time.time()
EnterMonitor ==
    /\ monState' = "polling" /\ monPolls' = 0 /\ monSleeps' = 0 /\ elapsed' = 0
    /\ lastStatus' = "none" /\ seenTerminal' = FALSE /\ seqMatch' = 0
    /\ polled200' = FALSE

\* start_rollout returns with `result`, having sent `sent` start commands;
\* main goes on
LeaveActivation(result, sent) ==
    /\ actResult' = result
    /\ attempt' = 0 /\ actPolls' = 0 /\ actStatus' = "none"
    /\ IF AfterActivation(result) = "monitor"
       THEN /\ pc' = "monitor"
            /\ startSent' = sent
            /\ EnterMonitor
            /\ UNCHANGED <<idx, dev, devStep, ds_id, createCode, rollout_id, outcomes>>
       ELSE /\ outcomes' = Append(outcomes, result)
            /\ pc' = LoopNext(idx, Len(Bundles))
            /\ idx' = IF idx < Len(Bundles) THEN idx + 1 ELSE idx
            /\ dev' = IF idx < Len(Bundles) THEN dev ELSE 1
            /\ devStep' = IF idx < Len(Bundles) THEN devStep ELSE 1
            /\ ds_id' = NoId /\ createCode' = 0 /\ rollout_id' = NoId
            /\ startSent' = 0
            /\ UNCHANGED monVars

\* start_rollout: one iteration of for attempt in range(20), and the else
\* branch of the loop when it was the last one
ActivatePoll ==
    /\ pc = "activate"
    /\ reqs' = reqs \cup {"rollout_get"}
    /\ \E resp \in StatusResponses :
         /\ failed' = IF resp.code # 200 THEN {"activate_poll"} ELSE {}
         /\ IF ReadyObserved(resp)
            THEN /\ pc' = "start"
                 /\ actPolls' = actPolls + 1
                 /\ actStatus' = resp.status
                 /\ said' = ActivatorSays(resp)
                 /\ UNCHANGED <<idx, dev, devStep, ds_id, createCode, rollout_id,
                                attempt, actResult, startSent, monVars, outcomes>>
            ELSE IF attempt + 1 < MaxAttempts
            THEN /\ attempt' = attempt + 1
                 /\ actPolls' = actPolls + 1
                 /\ actStatus' = resp.status
                 /\ said' = ActivatorSays(resp)
                 /\ UNCHANGED <<pc, idx, dev, devStep, ds_id, createCode, rollout_id,
                                actResult, startSent, monVars, outcomes>>
            ELSE /\ LeaveActivation("activation_timeout", startSent)
                 /\ said' = ActivatorSays(resp)
                               \cup {"Timeout waiting for rollout to become ready"}
    /\ UNCHANGED <<run, seq_choice, csv, serials, query, flt, inflight, devReports,
                   nDevReq, srvVars, fnVars>>

\* a start_rollout that sends the start command again when it was rejected
AfterStart_Retries(code) == IF StartOk(code) THEN "return" ELSE "retry"

\* start_rollout: the function ends after the report of the start response,
\* whatever the response
AfterStart(code) == "return"

\* start_rollout: the start command and the report of its response
StartCommand ==
    /\ pc = "start"
    /\ reqs' = reqs \cup {"rollout_start"}
    /\ \E code \in SrvStartCodes :
         /\ failed' = IF code \notin {200, 202} THEN {"rollout_start"} ELSE {}
         /\ said' = StartSays(code)
         /\ IF AfterStart(code) = "return"
            THEN LeaveActivation(IF StartOk(code) THEN "started" ELSE "start_rejected",
                                 startSent + 1)
            ELSE /\ startSent' = startSent + 1
                 /\ UNCHANGED <<pc, idx, dev, devStep, ds_id, createCode, rollout_id,
                                attempt, actResult, actPolls, actStatus, monVars,
                                outcomes>>
    /\ UNCHANGED <<run, seq_choice, csv, serials, query, flt, inflight, devReports,
                   nDevReq, srvVars, fnVars>>

\* how far the statuses polled so far follow running, running, finished
\* (4: they do not)
FollowSequence(m, resp) ==
    IF resp.code # 200 THEN 4
    ELSE IF m = 0 /\ resp.status = "running" THEN 1
    ELSE IF m = 1 /\ resp.status = "running" THEN 2
    ELSE IF m = 2 /\ resp.status = "finished" THEN 3
    ELSE 4

\* monitor_rollout_until_done: one iteration of while True
MonitorPoll ==
    /\ pc = "monitor" /\ monState = "polling"
    /\ monPolls < MaxMonPolls
    /\ reqs' = reqs \cup {"rollout_get"}
    /\ \E resp \in StatusResponses, latency \in 0..MaxLatency :
         LET now == elapsed + latency
             step == MonitorStep(resp, now, PollTimeout)
         IN /\ monPolls' = monPolls + 1
            /\ lastStatus' = resp.status
            /\ seenTerminal' = (seenTerminal \/
                                 (resp.code = 200 /\ resp.status \in {"finished", "error", "paused"}))
            /\ seqMatch' = FollowSequence(seqMatch, resp)
            /\ polled200' = (polled200 \/ resp.code = 200)
            /\ failed' = IF resp.code # 200 THEN {"monitor_poll"} ELSE {}
            /\ said' = MonitorSays(resp, step)
            /\ IF step \in {"retry", "sleep"}
               THEN /\ monSleeps' = monSleeps + 1
                    /\ elapsed' = now + PollInterval
                    /\ UNCHANGED monState
               ELSE /\ monState' = step
                    /\ elapsed' = now
                    /\ UNCHANGED monSleeps
    /\ UNCHANGED <<mainVars, bundleVars, outcomes, inflight, devVars, srvVars, fnVars>>

\* a monitor without the except clause: the interrupt leaves main()
MonitorInterrupt_Uncaught ==
    /\ pc = "monitor" /\ monState = "polling"
    /\ pc' = "killed"
    /\ ClientReset
    /\ UNCHANGED <<run, srvVars, fnVars>>

\* KeyboardInterrupt inside the try block of monitor_rollout_until_done
MonitorInterrupt ==
    /\ pc = "monitor" /\ monState = "polling"
    /\ monState' = "interrupted"
    /\ failed' = {}
    /\ said' = {"Monitoring stopped by user"}
    /\ UNCHANGED <<mainVars, bundleVars, monPolls, monSleeps, elapsed, lastStatus,
                   seenTerminal, seqMatch, polled200, histVars, devVars, srvVars,
                   fnVars>>

\* monitor_rollout_until_done returns; the loop over the sequence goes on
MonitorReturn ==
    /\ pc = "monitor" /\ monState \in {"ended", "timedout", "interrupted"}
    /\ EndBundle(monState)
    /\ inflight' = inflight \ {rollout_id}
    /\ failed' = {} /\ said' = {}
    /\ UNCHANGED <<run, seq_choice, csv, serials, query, flt, devReports, nDevReq,
                   reqs, srvVars, fnVars>>

\* main: the three queries of one target, in the order they are called
NextQuery(step) == IF step < 3 THEN step + 1 ELSE 1

Inspect(step, kind, report) ==
    /\ pc = "inspect" /\ devStep = step
    /\ reqs' = reqs \cup {kind}
    /\ nDevReq' = nDevReq + 1
    /\ devReports' = (IF step = 1 THEN <<>> ELSE devReports)
                        \o <<[code |-> report.code, report |-> report.text]>>
    /\ failed' = IF report.fails THEN {kind} ELSE {}
    /\ said' = report.says
    /\ devStep' = NextQuery(step)
    /\ dev' = IF NextQuery(step) = 1 THEN dev + 1 ELSE dev
    /\ pc' = IF NextQuery(step) = 1 /\ dev = Len(serials) THEN "done" ELSE "inspect"
    /\ UNCHANGED <<run, seq_choice, csv, serials, query, flt, idx, bundleVars,
                   monVars, outcomes, inflight, srvVars, fnVars>>

\* get_assigned_ds(session, target)
GetAssigned ==
    \E code \in TargetCodes :
        Inspect(1, "target_assigned",
                [code |-> code, text |-> AssignedReport(code),
                 fails |-> code \notin {200, 204}, says |-> AssignedSays(code)])

\* get_installed_ds(session, target)
GetInstalled ==
    \E code \in TargetCodes :
        Inspect(2, "target_installed",
                [code |-> code, text |-> InstalledReport(code),
                 fails |-> code \notin {200, 204}, says |-> InstalledSays(code)])

\* get_firmware_history(session, target)
GetHistory ==
    \E code \in TargetCodes, nActions \in 0..1 :
        Inspect(3, "target_actions",
                [code |-> code, text |-> HistoryReport(code, nActions),
                 fails |-> code # 200, says |-> HistorySays(code, nActions)])

\* KeyboardInterrupt anywhere outside the try block of the monitor: the
\* exception leaves main() and the process, with all it held, is gone
Kill ==
    /\ pc \in {"begin", "filter", "resolve", "create", "activate", "start", "inspect"}
    /\ pc' = "killed"
    /\ ClientReset
    /\ UNCHANGED <<run, srvVars, fnVars>>

Ended == pc \in {"done", "aborted", "invalid", "crashed", "killed"}

\* the script is executed again, against the same server
Restart ==
    /\ Ended /\ run < MaxRuns
    /\ run' = run + 1
    /\ pc' = "begin"
    /\ ClientReset
    /\ UNCHANGED <<srvVars, fnVars>>

Next ==
    \/ Begin \/ RegisterFilter \/ Resolve \/ CreateRollout
    \/ ActivatePoll \/ StartCommand
    \/ MonitorPoll \/ MonitorInterrupt \/ MonitorReturn
    \/ GetAssigned \/ GetInstalled \/ GetHistory
    \/ Kill \/ Restart

Spec == Init /\ [][Next]_vars

\* ------------------------------------------- specifications of the functions
\* a function specification: the process is idle, the server is untouched,
\* fnIn holds the arguments and fnOut, once the function was applied, <<result>>
FnInit ==
    /\ pc = "fn" /\ run = 1
    /\ ClientIdle
    /\ srvFilters = <<>> /\ srvRollouts = <<>>
    /\ fnOut = <<>>

\* the requests get_distribution_set may be called with, and the answers
ResolverInputs ==
    { [code |-> c, sets |-> l, name |-> n, version |-> v] :
        c \in {200, 500}, l \in DsLists(MaxCandidates),
        n \in {"fw", "fw2"}, v \in {"1.0", "1.1"} }

InitResolver == FnInit /\ fnIn \in ResolverInputs

ApplyResolver ==
    /\ pc = "fn" /\ fnOut = <<>>
    /\ fnOut' = <<get_distribution_set(fnIn.code, fnIn.sets, fnIn.name, fnIn.version)>>
    /\ UNCHANGED <<mainVars, bundleVars, monVars, histVars, logVars, devVars, srvVars,
                   fnIn>>

SpecResolver == InitResolver /\ [][ApplyResolver]_vars

\* the cells a CSV file may hold: letters, blanks and double quotes
CellChars == {"a", Space, Quote}
CellValues == UNION { [1..k -> CellChars] : k \in 0..MaxCellLen }
CellLists == UNION { [1..k -> CellValues] : k \in 0..MaxCells }

InitQuery == FnInit /\ fnIn \in CellLists

ApplyQuery ==
    /\ pc = "fn" /\ fnOut = <<>>
    /\ fnOut' = <<generate_or_query(fnIn)>>
    /\ UNCHANGED <<mainVars, bundleVars, monVars, histVars, logVars, devVars, srvVars,
                   fnIn>>

SpecQuery == InitQuery /\ [][ApplyQuery]_vars

\* the statuses the creation request may be answered with, and the identifier
\* the body of the answer holds
CreateCodes == {200, 201, 202, 204, 301, 400, 401, 403, 404, 409, 500, 503}
CreatorInputs == { [code |-> c, rid |-> i] : c \in CreateCodes, i \in 1..MaxRolloutId }

InitCreator == FnInit /\ fnIn \in CreatorInputs

\* rollout_id = create_rollout(...) and what main does with it
ApplyCreator ==
    /\ pc = "fn" /\ fnOut = <<>>
    /\ fnOut' = <<[id |-> create_rollout(fnIn.code, fnIn.rid),
                   outcome |-> CreateOutcome(fnIn.code),
                   next |-> AfterCreate(create_rollout(fnIn.code, fnIn.rid))]>>
    /\ UNCHANGED <<mainVars, bundleVars, monVars, histVars, logVars, devVars, srvVars,
                   fnIn>>

SpecCreator == InitCreator /\ [][ApplyCreator]_vars

\* ------------------------------------------------------------------ claims
InBundle == pc \in {"resolve", "create", "activate", "start", "monitor"}
MonitorOutcomes == {"ended", "timedout", "interrupted"}
BundleOutcomes == {"not_found", "skip", "failed"} \cup MonitorOutcomes
FilterKinds == {"filter_post", "filter_list", "filter_put"}
TargetFilters == { i \in 1..Len(srvFilters) : srvFilters[i].name = FILTER_NAME }

\* C1: the bundles are processed in list order and one at a time: at most one
\* rollout of the run is being activated or monitored, and the creation
\* request of a bundle is sent only when every earlier bundle of the sequence
\* has its outcome (for a created rollout: its monitoring has ended by a
\* terminal status, the timeout or an interrupt) and no rollout is in flight.
C1_OneRolloutAtATime ==
    /\ [](/\ Cardinality(inflight) <= 1
          /\ inflight # {} =>
                /\ pc \in {"activate", "start", "monitor"}
                /\ inflight = {rollout_id})
    /\ [][(pc = "create" /\ pc' \notin {"create", "killed"}) =>
            /\ inflight = {}
            /\ Len(outcomes) = idx - 1
            /\ \A i \in 1..Len(outcomes) : outcomes[i] \in BundleOutcomes]_vars

\* the second rollout of a run is monitored after the first one's monitoring ended
C1_Witness ==
    /\ pc = "monitor" /\ idx = 2 /\ monPolls > 0
    /\ Len(outcomes) = 1 /\ outcomes[1] \in MonitorOutcomes

\* C2: once the timeout has elapsed without a terminal status the monitor
\* stops polling: it is never at the head of its loop, about to poll again,
\* later than one interval after the timeout.
C2_TimeoutEndsMonitoring ==
    (pc = "monitor" /\ monState = "polling") => elapsed <= PollTimeout + PollInterval

\* C3: the monitor ends at the first poll that returns a terminal status and
\* reports it: while the loop runs no terminal status has been polled; when it
\* has ended, the last poll returned the terminal status reported and there
\* was one sleep less than polls; nothing is polled or slept after it; and
\* for running, running, finished it ends at the third poll after two sleeps.
C3_EndsAtFirstTerminalPoll ==
    /\ [](pc = "monitor" =>
            /\ seenTerminal <=> monState = "ended"
            /\ monState = "ended" =>
                  /\ lastStatus \in {"finished", "error", "paused"}
                  /\ monPolls >= 1 /\ monSleeps = monPolls - 1
            /\ seqMatch = 3 =>
                  /\ monState = "ended" /\ lastStatus = "finished"
                  /\ monPolls = 3 /\ monSleeps = 2
                  /\ monSleeps * PollInterval <= 3 * PollInterval)
    /\ [][(pc = "monitor" /\ monState = "ended") =>
            \/ pc' # "monitor"
            \/ (monPolls' = monPolls /\ monSleeps' = monSleeps
                /\ monState' = monState /\ lastStatus' = lastStatus)]_vars

\* the monitor has ended on finished after running, running
C3_Witness ==
    pc = "monitor" /\ seqMatch = 3 /\ monState = "ended" /\ monPolls = 3

\* C4: once the filter is registered the run is ended only by the final
\* verification (or by an interrupt outside the monitor): it is never aborted;
\* whatever the outcomes of the bundles before it, a bundle is processed while
\* bundles remain; inspection begins only when every bundle of the sequence
\* has an outcome; and the run is done only when three queries were sent for
\* every selected target.
C4_RunReachesVerification ==
    /\ flt.ok => pc \notin {"aborted", "invalid", "crashed", "begin", "filter"}
    /\ InBundle =>
          /\ flt.ok /\ idx \in 1..Len(Bundles) /\ Len(outcomes) = idx - 1
    /\ pc \in {"inspect", "done"} =>
          /\ flt.ok /\ Len(outcomes) = Len(Bundles)
          /\ \A i \in 1..Len(outcomes) : outcomes[i] \in BundleOutcomes
    /\ pc = "inspect" => dev \in 1..Len(serials)
    /\ pc = "done" => nDevReq = 3 * Len(serials)

\* a run is done although its first bundle was not found and the monitoring
\* of the second timed out
C4_Witness ==
    pc = "done" /\ outcomes = <<"not_found", "timedout">> /\ nDevReq = 3 * Len(serials)

\* C5: when create_target_filter fails the run is aborted: it is at its end,
\* no request other than the filter requests was sent, no bundle was
\* processed and no target was queried.
C5_FilterFailureAborts ==
    (flt.post # 0 /\ ~flt.ok) =>
        /\ pc = "aborted"
        /\ reqs \subseteq FilterKinds
        /\ outcomes = <<>> /\ idx = 0 /\ inflight = {}
        /\ nDevReq = 0 /\ dev = 0

\* the update sent after a conflict failed
C5_Witness ==
    pc = "aborted" /\ flt.post = 409 /\ flt.putTo # NoId /\ flt.put = 500

\* C6: the server never holds two rollouts of one name; a creation request
\* for a name the server holds creates nothing, is reported as skip and is
\* followed by the next bundle (or the inspection); and a rollout is
\* activated, started or monitored only after a creation answered 200/201
\* that returned its identifier.
C6_DuplicateRolloutSkipped ==
    /\ [](/\ \A i, j \in 1..Len(srvRollouts) :
                srvRollouts[i] = srvRollouts[j] => i = j
          /\ pc \in {"activate", "start", "monitor"} =>
                /\ createCode \in {200, 201}
                /\ rollout_id \in 1..Len(srvRollouts)
                /\ srvRollouts[rollout_id] =
                       RolloutName(seq_choice, SerialSuffix(serials), idx))
    /\ [][(/\ pc = "create" /\ pc' # "killed"
           /\ HasRollout(srvRollouts,
                         RolloutName(seq_choice, SerialSuffix(serials), idx))) =>
            /\ srvRollouts' = srvRollouts
            /\ outcomes' = Append(outcomes, "skip")
            /\ pc' \in {"resolve", "inspect"}
            /\ inflight' = {} /\ rollout_id' = NoId]_vars

\* a second run asked for a rollout name of the first and skipped it
C6_Witness ==
    /\ run = 2 /\ Len(outcomes) = 1 /\ outcomes[1] = "skip"
    /\ HasRollout(srvRollouts, RolloutName(seq_choice, SerialSuffix(serials), 1))

\* C7: the server holds at most one filter named FILTER_NAME; when
\* create_target_filter has succeeded the expression stored under that name
\* is the one just sent, also when an older one was stored before; and a
\* call that met a conflict fails only if no update was sent or the server
\* refused it.
C7_UpsertStoresNewExpression ==
    /\ Cardinality(TargetFilters) <= 1
    /\ flt.ok => StoredQueries(srvFilters, FILTER_NAME) = {query}
    /\ (flt.post = 409 /\ ~flt.ok) => (flt.putTo = NoId \/ flt.put \notin {200, 204})

\* a call replaced a different expression stored by an earlier run
C7_Witness ==
    /\ flt.ok /\ flt.post = 409 /\ flt.putTo # NoId
    /\ flt.before # {} /\ flt.before # {query}
    /\ StoredQueries(srvFilters, FILTER_NAME) = {query}

\* C8: the three queries of every target are sent one after the other
\* whatever the responses: each query is followed by the next query of the
\* target, or by the first query of the next target, or by the end of the run;
\* 204 on the assigned query is reported as none and only a response other
\* than 200/204 as an error.
C8_InspectionNeverStops ==
    /\ [](/\ pc = "inspect" =>
                /\ nDevReq = 3 * (dev - 1) + (devStep - 1)
                /\ dev \in 1..Len(serials) /\ devStep \in 1..3
          /\ pc = "done" => nDevReq = 3 * Len(serials)
          /\ Len(devReports) >= 1 =>
                /\ devReports[1].code = 200 => devReports[1].report = "present"
                /\ devReports[1].code = 204 => devReports[1].report = "none"
                /\ devReports[1].code \notin {200, 204} => devReports[1].report = "error"
          /\ Len(devReports) >= 2 =>
                (devReports[2].report = "error" <=> devReports[2].code \notin {200, 204})
          /\ Len(devReports) >= 3 =>
                (devReports[3].code \notin {200, 204} => devReports[3].report = "error"))
    /\ [][(pc = "inspect" /\ pc' # "killed") =>
            /\ nDevReq' = nDevReq + 1
            /\ Len(devReports') = devStep
            /\ IF devStep < 3
               THEN pc' = "inspect" /\ dev' = dev /\ devStep' = devStep + 1
               ELSE IF dev < Len(serials)
               THEN pc' = "inspect" /\ dev' = dev + 1 /\ devStep' = 1
               ELSE pc' = "done"]_vars

\* the first target had nothing assigned and its installed query failed; its
\* history and the second target were queried all the same
C8_Witness ==
    /\ pc = "done" /\ Len(serials) = 2 /\ nDevReq = 6
    /\ devReports[1] = [code |-> 204, report |-> "none"]
    /\ devReports[2] = [code |-> 404, report |-> "error"]
    /\ devReports[3].code = 200

\* C9: for a 200 response the identifier returned is that of a candidate of
\* the list whose name and version both equal the requested ones, and None
\* exactly when the list holds no such candidate; any other response gives
\* None.
C9_ResolverExactMatch ==
    fnOut # <<>> =>
        LET exact == { i \in 1..Len(fnIn.sets) :
                         /\ fnIn.sets[i].name = fnIn.name
                         /\ fnIn.sets[i].version = fnIn.version }
        IN IF fnIn.code = 200 /\ exact # {}
           THEN \E i \in exact : fnOut[1] = fnIn.sets[i].id
           ELSE fnOut[1] = NoId

\* the exact match comes after a candidate of the same name and another version
C9_Witness ==
    /\ fnOut = <<1>> /\ fnIn.code = 200
    /\ fnIn.name = "fw" /\ fnIn.version = "1.0"
    /\ Len(fnIn.sets) = 2 /\ fnIn.sets[1].id = 2 /\ fnIn.sets[2].id = 1

\* reading an OR-expression back: "(" predicate (" or " predicate)* ")", a
\* predicate being name=="..." whose string ends at the next double quote
StartsWith(s, p) == Len(s) >= Len(p) /\ SubSeq(s, 1, Len(p)) = p
Drop(s, n) == SubSeq(s, n + 1, Len(s))
NotAnExpression == [ok |-> FALSE, ids |-> <<>>]

RECURSIVE ReadPredicates(_)
ReadPredicates(s) ==
    LET open == Str_name_eq \o <<Quote>>
    IN IF ~StartsWith(s, open) THEN NotAnExpression
       ELSE LET body == Drop(s, Len(open))
                quotes == { i \in 1..Len(body) : body[i] = Quote }
            IN IF quotes = {} THEN NotAnExpression
               ELSE LET id == SubSeq(body, 1, Min(quotes) - 1)
                        rest == Drop(body, Min(quotes))
                    IN IF rest = <<")">> THEN [ok |-> TRUE, ids |-> <<id>>]
                       ELSE IF StartsWith(rest, Str_or)
                       THEN LET more == ReadPredicates(Drop(rest, Len(Str_or)))
                            IN [ok |-> more.ok, ids |-> <<id>> \o more.ids]
                       ELSE NotAnExpression

ExtractIds(q) ==
    IF q # <<>> /\ Head(q) = "(" THEN ReadPredicates(Tail(q)) ELSE NotAnExpression

Occurrences(seq, x) == Cardinality({ i \in 1..Len(seq) : seq[i] = x })

SameMultiset(a, b) ==
    /\ Len(a) = Len(b)
    /\ \A i \in 1..Len(a) : Occurrences(a, a[i]) = Occurrences(b, a[i])

\* C10: the identifiers read back from the expression generate_or_query
\* builds are, as a multiset, the identifiers it was built from, one
\* predicate each.
C10_QueryRoundTrip ==
    (fnOut # <<>> /\ fnOut[1].ok) =>
        LET back == ExtractIds(fnOut[1].query)
        IN back.ok /\ SameMultiset(back.ids, fnOut[1].serials)

\* the same, for identifiers that hold no double quote
C10_RoundTripWithoutQuotes ==
    (/\ fnOut # <<>> /\ fnOut[1].ok
     /\ \A i \in 1..Len(fnOut[1].serials) :
           \A j \in 1..Len(fnOut[1].serials[i]) : fnOut[1].serials[i][j] # Quote) =>
        LET back == ExtractIds(fnOut[1].query)
        IN back.ok /\ back.ids = fnOut[1].serials

\* a list of cells without a character other than the blank (the empty list,
\* and a list of empty cells, included)
AllBlank(cells) ==
    \A i \in 1..Len(cells) : \A j \in 1..Len(cells[i]) : cells[i][j] = Space

\* C11: for an empty or all-blank list of cells the query builder fails:
\* main() ends where it called it, and the run has sent no filter, rollout
\* or device-status request and has left the server as it was; a run that
\* went on past the query builder has read a cell that is not blank.
C11_EmptyCsvStopsTheRun ==
    /\ [](pc = "crashed" =>
            /\ AllBlank(csv)
            /\ reqs = {} /\ nDevReq = 0
            /\ flt = NoFilterCall /\ outcomes = <<>> /\ inflight = {})
    /\ [](pc \in {"filter", "resolve", "create", "activate", "start", "monitor",
                  "inspect", "done", "aborted"} => ~AllBlank(csv))
    /\ [][(pc = "begin" /\ pc' = "crashed") => UNCHANGED srvVars]_vars

\* the second run of the script reads a file of blank cells, after a first
\* run that created a rollout
C11_Witness ==
    /\ pc = "crashed" /\ run = 2 /\ Len(csv) = 2 /\ srvRollouts # <<>>

TerminalStatuses == {"finished", "error", "paused"}

\* C12: a poll of the monitor answered with 200 ends the monitoring exactly
\* when the status it reports is finished, error or paused, however much time
\* has elapsed; any other status leaves the monitor polling unless the timeout
\* had elapsed when the answer was read, and the monitor leaves the polling
\* state only for ended (on a terminal status), timed out (on another status)
\* or interrupted.
C12_TerminalDetection ==
    /\ [][(pc = "monitor" /\ monPolls' = monPolls + 1 /\ lastStatus' \in Statuses) =>
            /\ pc' = "monitor"
            /\ (monState' = "ended") <=> (lastStatus' \in TerminalStatuses)
            /\ lastStatus' \notin TerminalStatuses =>
                  /\ monState' \in {"polling", "timedout"}
                  /\ monState' = "timedout" => elapsed' > PollTimeout
                  /\ monState' = "polling" => elapsed' - PollInterval <= PollTimeout]_vars
    /\ [][(pc = "monitor" /\ monState = "polling" /\ pc' = "monitor"
                          /\ monState' # "polling") =>
            \/ monState' = "ended" /\ lastStatus' \in TerminalStatuses
            \/ monState' = "timedout" /\ lastStatus' \in Statuses \ TerminalStatuses
            \/ monState' = "interrupted" /\ monPolls' = monPolls]_vars

\* a terminal status is polled after the timeout has elapsed, and ends the
\* monitoring as a terminal status, not as a timeout
C12_Witness ==
    /\ pc = "monitor" /\ monState = "ended" /\ elapsed > PollTimeout
    /\ lastStatus = "paused"

C14_ActivatorBound ==
    /\ [](/\ actPolls <= 20
          /\ pc = "activate" => (actPolls < 20 /\ actPolls = attempt /\ startSent = 0)
          /\ pc = "start" => (actStatus = "ready" /\ actPolls \in 1..20)
          /\ actResult = "activation_timeout" => startSent = 0)
    /\ [][startSent' > startSent =>
            (pc = "start" /\ actStatus = "ready" /\ rollout_id # NoId)]_vars
    /\ [][(pc = "activate" /\ actResult' = "activation_timeout") =>
            /\ actPolls = 19 /\ actStatus # "ready"
            /\ pc' # "start" /\ startSent' = 0]_vars

\* start_rollout has just returned after 20 polls without ready, the last
\* one unanswered
C14_Witness ==
    /\ actResult = "activation_timeout" /\ startSent = 0 /\ monPolls = 0
    /\ "Timeout waiting for rollout to become ready" \in said
    /\ failed = {"activate_poll"}

\* the 20th poll reports ready and the start command follows
C14_ReadyAtLastPoll == pc = "start" /\ actPolls = 20

\* C15: an activation that timed out is a hard stop for its rollout: no
\* monitor poll is sent for a rollout whose activation ended with the timeout.
C15_ActivationTimeoutSkipsRollout ==
    actResult = "activation_timeout" => monPolls = 0

Interrupted == \E i \in 1..Len(outcomes) : outcomes[i] = "interrupted"

\* C16: an interrupt during the monitor loop ends the monitoring of the
\* current rollout only: the monitor becomes interrupted without a further
\* poll and returns to the loop over the sequence with the outcome
\* interrupted; the run is not aborted (the monitor is left only for the next
\* bundle or for the inspection), and a run with an interrupted rollout that
\* goes to its end has processed every bundle and sent the three queries of
\* every selected device.
C16_InterruptEndsOneRollout ==
    /\ [][pc = "monitor" => pc' \in {"monitor", "resolve", "inspect"}]_vars
    /\ [][(monState # "interrupted" /\ monState' = "interrupted") =>
            /\ pc = "monitor" /\ pc' = "monitor" /\ monState = "polling"
            /\ UNCHANGED <<run, idx, rollout_id, monPolls, outcomes, reqs, srvVars>>]_vars
    /\ [][(pc = "monitor" /\ monState = "interrupted") =>
            /\ outcomes' = Append(outcomes, "interrupted")
            /\ pc' = IF idx < Len(Bundles) THEN "resolve" ELSE "inspect"
            /\ idx' = IF idx < Len(Bundles) THEN idx + 1 ELSE idx
            /\ inflight' = inflight \ {rollout_id}
            /\ UNCHANGED <<run, serials, reqs, nDevReq, srvVars>>]_vars
    /\ [](Interrupted =>
            /\ pc \in {"resolve", "create", "activate", "start", "monitor",
                       "inspect", "done"}
            /\ pc \in {"inspect", "done"} => Len(outcomes) = Len(Bundles)
            /\ pc = "done" => nDevReq = 3 * Len(serials))

\* the monitoring of the first rollout was interrupted; the second rollout
\* was monitored to its end and every device was inspected
C16_Witness ==
    /\ pc = "done" /\ outcomes = <<"interrupted", "ended">>
    /\ Len(serials) = 2 /\ nDevReq = 6

\* how create_rollout and main treat a creation answer when success is `ok`
CreatorMapping(ok) ==
    fnOut # <<>> =>
        LET o == fnOut[1]
        IN /\ fnIn.code \in ok =>
                (o.id = fnIn.rid /\ o.outcome = "created" /\ o.next = "activate")
           /\ fnIn.code = 409 =>
                (o.id = NoId /\ o.outcome = "skip" /\ o.next = "next")
           /\ fnIn.code \notin ok \cup {409} =>
                (o.id = NoId /\ o.outcome = "failed" /\ o.next = "next")

\* C17 as stated: create_rollout returns the new identifier for every 2xx
\* status, skip for 409 and failure for any other status, and only the 2xx
\* outcome leads main to activate and monitor.
C17_CreatorMapsEvery2xx == CreatorMapping(200..299)

\* C17: create_rollout returns the new identifier when the status is 200 or
\* 201, skip for 409 and failure for any other status, the other 2xx statuses
\* included; only the 200/201 outcome leads main to activate and monitor.
C17_CreatorMaps200And201 == CreatorMapping({200, 201})

\* a creation answered with 202 is reported as a failure
C17_Witness ==
    /\ fnOut # <<>> /\ fnIn.code = 202
    /\ fnOut[1].outcome = "failed" /\ fnOut[1].next = "next"

\* C18: when the creation of the filter is answered with 409,
\* create_target_filter requests the filter list and sends one update, to the
\* identifier of an entry named FILTER_NAME; it reports success exactly when
\* that update was sent and answered with 200 or 204, and failure, without an
\* update, when the list holds no entry of that name; when the creation is
\* answered with neither 200/201 nor 409 it reports failure after that single
\* request. A failure ends the run.
C18_ConflictPath ==
    [][(pc = "filter" /\ pc' \notin {"filter", "killed"}) =>
        LET named == { srvFilters[i].id : i \in TargetFilters }
            f == flt'
            sent == reqs' \cap FilterKinds
        IN /\ f.post = 409 =>
                /\ f.listed /\ "filter_list" \in sent
                /\ ("filter_put" \in sent) <=> (f.putTo # NoId)
                /\ f.putTo # NoId => f.putTo \in named
                /\ f.ok <=> (f.putTo # NoId /\ f.put \in {200, 204})
                /\ f.putTo = NoId => (~f.ok /\ srvFilters' = srvFilters)
           /\ f.post \notin {200, 201, 409} =>
                /\ ~f.ok /\ ~f.listed /\ f.putTo = NoId
                /\ sent = {"filter_post"}
                /\ srvFilters' = srvFilters
           /\ ~f.ok => pc' = "aborted"]_vars

\* the conflict path succeeds: the update went to the entry of that name,
\* which is not the first of the list
C18_Witness ==
    /\ pc = "resolve" /\ flt.post = 409 /\ flt.listed
    /\ flt.putTo = 2 /\ flt.put = 204 /\ flt.ok
    /\ reqs = {"filter_post", "filter_list", "filter_put"}

\* the creation was answered with 409 and the list request failed: no entry
\* was found, no update was sent and the run was aborted
C18_NoEntryFound ==
    /\ pc = "aborted" /\ flt.post = 409 /\ flt.listed /\ flt.putTo = NoId
    /\ reqs = {"filter_post", "filter_list"}

\* the message each kind of failing response is reported with; a failed
\* status poll of start_rollout has none
FailureMessage ==
    [k \in {"ds_query", "filter_post", "filter_list", "filter_put", "rollout_create",
            "rollout_start", "monitor_poll", "target_assigned", "target_installed",
            "target_actions"} |->
        CASE k = "ds_query" -> "Failed to query distribution set"
          [] k = "filter_post" -> "Filter creation failed"
          [] k = "filter_list" -> "Filter ID not found during update"
          [] k = "filter_put" -> "Update failed"
          [] k = "rollout_create" -> "Rollout creation failed"
          [] k = "rollout_start" -> "Failed to start rollout"
          [] k = "monitor_poll" -> "Failed to fetch progress"
          [] k = "target_assigned" -> "Error fetching assigned DS"
          [] k = "target_installed" -> "Error fetching installed DS"
          [] k = "target_actions" -> "Error fetching firmware history"]

\* C19: every failure is reported: a step of the run that received a failing
\* response has printed a message before the run moves on.
C19_EveryFailureReported == failed # {} => said # {}

\* outside the polls of start_rollout every failing response is reported
\* with the message of its kind
C19_ReportedOutsideActivator ==
    \A k \in failed \ {"activate_poll"} : FailureMessage[k] \in said

\* a rejected start command is one of the failures that are reported
C19_FailedStartReported == failed = {"rollout_start"} /\ pc = "monitor"

\* the rollout of the current bundle was created by this run, for a resolved
\* bundle and after the filter was registered
CreatedByThisRun ==
    /\ flt.ok /\ ds_id # NoId
    /\ createCode \in {200, 201} /\ "rollout_create" \in reqs
    /\ rollout_id \in 1..Len(srvRollouts)
    /\ srvRollouts[rollout_id] = RolloutName(seq_choice, SerialSuffix(serials), idx)

\* C20: at most one start command is sent for a rollout, and only for the
\* rollout the run has created (200/201) for the current, resolved bundle
\* after a successful filter registration; a rejected start command is
\* followed by the monitor, never by another start command. Rollouts of
\* different bundles and runs are different rollouts: the server holds no two
\* of one name.
C20_StartOncePerCreatedRollout ==
    /\ [](/\ startSent <= 1
          /\ pc = "start" => (startSent = 0 /\ CreatedByThisRun)
          /\ startSent = 1 =>
                (CreatedByThisRun /\ pc = "monitor"
                   /\ actResult \in {"started", "start_rejected"})
          /\ actResult \in {"started", "start_rejected"} => startSent = 1
          /\ \A i, j \in 1..Len(srvRollouts) :
                srvRollouts[i] = srvRollouts[j] => i = j)
    /\ [][startSent' > startSent =>
            (pc = "start" /\ startSent = 0 /\ "rollout_start" \in reqs'
               /\ rollout_id' = rollout_id)]_vars
    /\ [][actResult = "start_rejected" => (pc' # "start" /\ startSent' <= startSent)]_vars

\* a start command was rejected; the monitor polls the rollout and no second
\* start command was sent
C20_Witness ==
    /\ pc = "monitor" /\ actResult = "start_rejected" /\ startSent = 1
    /\ monPolls = 2 /\ idx = 2

====
